---- MODULE Spec2Model ----
(***************************************************************************)
(* PySAA: registration, activation, login throttling/blocking, session     *)
(* expiry/refresh, role-based authorization and logout (src/server.py),    *)
(* run through the dbconn decorator (src/dbapi.py) with the settings of    *)
(* src/settings.py.                                                        *)
(*                                                                         *)
(* The database and the entity mapper (src/model.py) are modelled by what  *)
(* their interface documents: a table is a set of rows; an entity built    *)
(* with an id holds the row of that id, or None in every column when there *)
(* is no such row; save() inserts a new entity and updates a loaded one;   *)
(* changes made on a connection become durable at commit() and are lost    *)
(* when the connection is closed without a commit.                         *)
(*                                                                         *)
(* Time is counted in ticks, TicksPerSec of them in a second, because      *)
(* time.time() has a fraction while the stored timestamps are              *)
(* int(time.time()), whole seconds.                                        *)
(***************************************************************************)
EXTENDS Integers, FiniteSets, Sequences, TLC

VARIABLES users, activations, logins, roles, permissions, now, nextTok, ticks, last, streak,
          granted, pending

vars == <<users, activations, logins, roles, permissions, now, nextTok, ticks, last, streak,
         granted, pending>>

---------------------------------------------------------------------------
(* settings.py *)
T_ACTIVATION == 60 * 60 * 24
MAX_ATTEMPTS == 5
T_LOGIN == 5
T_BLOCKED == 60 * 15
T_SESSION == 60 * 60 * 2
T_REFRESH == 60 * 5

(* model.py: User, Login and Role constants *)
STATUS_INACTIVE == 0
STATUS_ACTIVE == 1
STATUS_BLOCKED == 2
STATUS_REFUSED == 0
STATUS_ACCEPTED == 1
ROLE_ANONYMOUS == 1
ROLE_STANDARD == 2
ROLE_EXTENDED == 3

(* None, and the empty session id "" of a refused login *)
NONE == -1
EMPTY_SID == 0

---------------------------------------------------------------------------
(* Bounds of the model *)
TicksPerSec == 2
MaxTokens == 3
MaxTicks == 2
MaxRoles == 3
MaxProcs == 2
MaxLogins == 6

Emails == {"a@x"}
Pwds == {"pw1", "pw2"}
Oids == {"public", "dashboard", "admin"}

Secs(T) == T * TicksPerSec

---------------------------------------------------------------------------
(* time *)

(* int(time.time()) at tick t *)
IntTime(t) == t \div TicksPerSec

(* time.time() - row.created, in ticks, at tick t *)
Elapsed(t, created) == t - created * TicksPerSec

---------------------------------------------------------------------------
(* model.py: the entity mapper *)

Truthy(v) == v # NONE /\ v # 0

NoUser ==
  [user_id |-> NONE, email |-> "", password |-> "", status |-> NONE, role_id |-> NONE]
NoActivation == [user_id |-> NONE, activation_id |-> NONE, created |-> NONE]
NoLogin ==
  [user_id |-> NONE, session_id |-> NONE, status |-> NONE, attempts |-> NONE,
   created |-> NONE]
NoRole == [role_id |-> NONE, parent_id |-> NONE]

(* EntityBase.get: the rows of a table with the given primary key *)
RowsById(tbl, id) == {r \in tbl : r.user_id = id}

(* EntityBase.__init__(db, id): the row of that id, or the empty entity *)
Entity(tbl, id, empty) ==
  IF Truthy(id) /\ RowsById(tbl, id) # {}
    THEN CHOOSE r \in RowsById(tbl, id) : TRUE
    ELSE empty

(* EntityBase.__bool__: some column holds a true value *)
UserBool(u) == Truthy(u.user_id) \/ u.email # "" \/ u.password # ""
                 \/ Truthy(u.status) \/ Truthy(u.role_id)
ActivationBool(a) == Truthy(a.user_id) \/ Truthy(a.activation_id) \/ Truthy(a.created)
LoginBool(l) == Truthy(l.user_id) \/ Truthy(l.session_id) \/ Truthy(l.status)
                  \/ Truthy(l.attempts) \/ Truthy(l.created)

(* save that always inserts *)
Save_Insert(tbl, id, row) == tbl \cup {row}

(* EntityBase.save: update the row of a loaded entity, insert a new one *)
Save(tbl, id, row) ==
  IF RowsById(tbl, id) # {}
    THEN {IF r.user_id = id THEN row ELSE r : r \in tbl}
    ELSE tbl \cup {row}

(* EntityBase.delete *)
Delete(tbl, id) == {r \in tbl : r.user_id # id}

(* the id the database gives an inserted user (lastrowid) *)
NewUserId(us) ==
  IF us = {} THEN 1
  ELSE 1 + (CHOOSE m \in {u.user_id : u \in us} : \A u \in us : u.user_id <= m)

(* Role(db, id) *)
RoleEntity(rl, id) ==
  IF Truthy(id) /\ (\E r \in rl : r.role_id = id)
    THEN CHOOSE r \in rl : r.role_id = id
    ELSE NoRole

---------------------------------------------------------------------------
(* utils.random_string(64): a string no earlier call has returned *)
random_string(tok) == tok

(* what a request's do_process leaves behind: the tables as written on its  *)
(* connection, the domain error it raised ("none" when it returned), and    *)
(* the response data it returned                                            *)
Out(db, exc, result, sid, pwd, gen) ==
  [db |-> db, exc |-> exc, result |-> result, sid |-> sid, pwd |-> pwd, gen |-> gen]

(* PySAARequest.get_user_by_email *)
UsersByEmail(db, email) == {u \in db.users : u.email = email}

(* PySAARequest.get_login_by_sid *)
LoginsBySid(db, sid) == {l \in db.logins : l.session_id = sid}

---------------------------------------------------------------------------
(* RegistrationRequest *)

(* check_user that does not look at the pending activation *)
Reg_check_user_NoPending(db, t, user) ==
  IF user.status # STATUS_INACTIVE THEN "DuplicateRegistration" ELSE "none"

(* check_user that does not look at the status of the user *)
Reg_check_user_AnyStatus(db, t, user) ==
  LET act == Entity(db.activations, user.user_id, NoActivation)
  IN IF ActivationBool(act) /\ Elapsed(t, act.created) <= Secs(T_ACTIVATION)
       THEN "PendingActivation"
     ELSE "none"

(* RegistrationRequest.check_user: the error it raises, or "none" *)
Reg_check_user(db, t, user) ==
  LET act == Entity(db.activations, user.user_id, NoActivation)
  IN IF user.status # STATUS_INACTIVE THEN "DuplicateRegistration"
     ELSE IF ActivationBool(act) /\ Elapsed(t, act.created) <= Secs(T_ACTIVATION)
       THEN "PendingActivation"
     ELSE "none"

(* new_activation that always inserts a row *)
new_activation_Insert(db, t, tok, uid) ==
  [db EXCEPT !.activations =
     @ \cup {[user_id |-> uid, activation_id |-> random_string(tok),
              created |-> IntTime(t)]}]

(* RegistrationRequest.new_activation *)
new_activation(db, t, tok, uid) ==
  [db EXCEPT !.activations =
     Save(@, uid, [user_id |-> uid, activation_id |-> random_string(tok),
                   created |-> IntTime(t)])]

(* RegistrationRequest.do_process *)
Registration_do_process(db, t, tok, email, password) ==
  LET found == UsersByEmail(db, email)
  IN IF Cardinality(found) > 1
       THEN Out(db, "DuplicateEmail", FALSE, NONE, FALSE, FALSE)
     ELSE IF found = {}
       THEN LET uid == NewUserId(db.users)
                user == [user_id |-> uid, email |-> email, password |-> password,
                         status |-> STATUS_INACTIVE, role_id |-> ROLE_STANDARD]
                db1 == [db EXCEPT !.users = @ \cup {user}]
            IN Out(new_activation(db1, t, tok, uid), "none", TRUE, NONE, FALSE, TRUE)
     ELSE LET user == CHOOSE u \in found : TRUE
              chk == Reg_check_user(db, t, user)
              db1 == [db EXCEPT !.users =
                        Save(@, user.user_id, [user EXCEPT !.password = password])]
          IN IF chk # "none"
               THEN Out(db, chk, FALSE, NONE, FALSE, FALSE)
               ELSE Out(new_activation(db1, t, tok, user.user_id),
                        "none", TRUE, NONE, FALSE, TRUE)

---------------------------------------------------------------------------
(* ActivationRequest *)

(* ActivationRequest.get_activation_by_aid *)
ActivationsByAid(db, aid) == {a \in db.activations : a.activation_id = aid}

(* do_process that keeps the activation of the user it sets active *)
Activation_do_process_KeepToken(db, t, aid) ==
  LET act_list == ActivationsByAid(db, aid)
  IN IF act_list = {}
       THEN Out(db, "InvalidActivationLink", FALSE, NONE, FALSE, FALSE)
     ELSE
       LET act == CHOOSE a \in act_list : TRUE
           user == Entity(db.users, act.user_id, NoUser)
           noact == [db EXCEPT !.activations = Delete(@, act.user_id)]
       IN IF ~UserBool(user)
            THEN Out(noact, "InvalidActivationLink", FALSE, NONE, FALSE, FALSE)
          ELSE IF Elapsed(t, act.created) >= Secs(T_ACTIVATION)
            THEN Out([noact EXCEPT !.users = Delete(@, user.user_id)],
                     "ActivationExpired", FALSE, NONE, FALSE, FALSE)
          ELSE Out([db EXCEPT !.users =
                      Save(@, user.user_id, [user EXCEPT !.status = STATUS_ACTIVE])],
                   "none", TRUE, NONE, FALSE, FALSE)

(* ActivationRequest.do_process *)
Activation_do_process(db, t, aid) ==
  LET act_list == ActivationsByAid(db, aid)
  IN IF act_list = {}
       THEN Out(db, "InvalidActivationLink", FALSE, NONE, FALSE, FALSE)
     ELSE
       LET act == CHOOSE a \in act_list : TRUE
           user == Entity(db.users, act.user_id, NoUser)
           noact == [db EXCEPT !.activations = Delete(@, act.user_id)]
       IN IF ~UserBool(user)
            THEN Out(noact, "InvalidActivationLink", FALSE, NONE, FALSE, FALSE)
          ELSE IF Elapsed(t, act.created) >= Secs(T_ACTIVATION)
            THEN Out([noact EXCEPT !.users = Delete(@, user.user_id)],
                     "ActivationExpired", FALSE, NONE, FALSE, FALSE)
          ELSE Out([noact EXCEPT !.users =
                      Save(@, user.user_id, [user EXCEPT !.status = STATUS_ACTIVE])],
                   "none", TRUE, NONE, FALSE, FALSE)

---------------------------------------------------------------------------
(* AuthenticationRequest *)

(* check_user that lets an inactive user through *)
Auth_check_user_NoInactive(db, t, user) ==
  LET lo == Entity(db.logins, user.user_id, NoLogin)
  IN IF user.status = STATUS_BLOCKED
       THEN IF LoginBool(lo) /\ Elapsed(t, lo.created) <= Secs(T_BLOCKED)
              THEN [db |-> db, exc |-> "TemporarilyBlocked"]
              ELSE [db |-> [db EXCEPT !.users =
                              Save(@, user.user_id, [user EXCEPT !.status = STATUS_ACTIVE])],
                    exc |-> "none"]
     ELSE [db |-> db, exc |-> "none"]

(* check_user letting a blocked user through without setting it active *)
Auth_check_user_StayBlocked(db, t, user) ==
  LET lo == Entity(db.logins, user.user_id, NoLogin)
  IN IF user.status = STATUS_INACTIVE
       THEN [db |-> db, exc |-> "NotActivated"]
     ELSE IF user.status = STATUS_BLOCKED
       THEN IF LoginBool(lo) /\ Elapsed(t, lo.created) <= Secs(T_BLOCKED)
              THEN [db |-> db, exc |-> "TemporarilyBlocked"]
              ELSE [db |-> db, exc |-> "none"]
     ELSE [db |-> db, exc |-> "none"]

(* check_user letting a blocked user in at the very end of the block *)
Auth_check_user_Early(db, t, user) ==
  LET lo == Entity(db.logins, user.user_id, NoLogin)
  IN IF user.status = STATUS_INACTIVE
       THEN [db |-> db, exc |-> "NotActivated"]
     ELSE IF user.status = STATUS_BLOCKED
       THEN IF LoginBool(lo) /\ Elapsed(t, lo.created) < Secs(T_BLOCKED)
              THEN [db |-> db, exc |-> "TemporarilyBlocked"]
              ELSE [db |-> [db EXCEPT !.users =
                              Save(@, user.user_id, [user EXCEPT !.status = STATUS_ACTIVE])],
                    exc |-> "none"]
     ELSE [db |-> db, exc |-> "none"]

(* AuthenticationRequest.check_user: the error it raises ("none" when it    *)
(* returns) and the tables after it                                         *)
Auth_check_user(db, t, user) ==
  LET lo == Entity(db.logins, user.user_id, NoLogin)
  IN IF user.status = STATUS_INACTIVE
       THEN [db |-> db, exc |-> "NotActivated"]
     ELSE IF user.status = STATUS_BLOCKED
       THEN IF LoginBool(lo) /\ Elapsed(t, lo.created) <= Secs(T_BLOCKED)
              THEN [db |-> db, exc |-> "TemporarilyBlocked"]
              ELSE [db |-> [db EXCEPT !.users =
                              Save(@, user.user_id, [user EXCEPT !.status = STATUS_ACTIVE])],
                    exc |-> "none"]
     ELSE [db |-> db, exc |-> "none"]

(* save_login that keeps the session id of a session the user already has *)
save_login_KeepSid(db, t, tok, uid, status, n) ==
  LET old == Entity(db.logins, uid, NoLogin)
      sid == IF status # STATUS_ACCEPTED THEN EMPTY_SID
             ELSE IF Truthy(old.session_id) THEN old.session_id
             ELSE random_string(tok)
  IN [db EXCEPT !.logins =
        Save(@, uid, [user_id |-> uid, session_id |-> sid, status |-> status,
                      attempts |-> n, created |-> IntTime(t)])]

(* save_login that generates a session id for a refused login as well *)
save_login_AlwaysSid(db, t, tok, uid, status, n) ==
  [db EXCEPT !.logins =
     Save(@, uid, [user_id |-> uid, session_id |-> random_string(tok), status |-> status,
                   attempts |-> n, created |-> IntTime(t)])]

(* save_login that leaves an accepted session alone when a login is refused *)
save_login_KeepAccepted(db, t, tok, uid, status, n) ==
  LET old == Entity(db.logins, uid, NoLogin)
      sid == IF status = STATUS_ACCEPTED THEN random_string(tok) ELSE EMPTY_SID
  IN IF status = STATUS_REFUSED /\ old.status = STATUS_ACCEPTED
       THEN db
       ELSE [db EXCEPT !.logins =
               Save(@, uid, [user_id |-> uid, session_id |-> sid, status |-> status,
                             attempts |-> n, created |-> IntTime(t)])]

(* AuthenticationRequest.save_login *)
save_login(db, t, tok, uid, status, n) ==
  LET sid == IF status = STATUS_ACCEPTED THEN random_string(tok) ELSE EMPTY_SID
  IN [db EXCEPT !.logins =
        Save(@, uid, [user_id |-> uid, session_id |-> sid, status |-> status,
                      attempts |-> n, created |-> IntTime(t)])]

(* the wrong-password branch starting the count again after the window *)
WrongPassword_Restart(t, attempts, last_ts) ==
  IF attempts = 0
    THEN [attempts |-> 1, block |-> FALSE]
  ELSE IF Elapsed(t, last_ts) <= Secs(T_LOGIN)
    THEN IF attempts + 1 >= MAX_ATTEMPTS
           THEN [attempts |-> 0, block |-> TRUE]
           ELSE [attempts |-> attempts + 1, block |-> FALSE]
  ELSE [attempts |-> 1, block |-> FALSE]

(* the wrong-password branch blocking one attempt early *)
WrongPassword_EarlyBlock(t, attempts, last_ts) ==
  IF attempts = 0
    THEN [attempts |-> 1, block |-> FALSE]
  ELSE IF Elapsed(t, last_ts) <= Secs(T_LOGIN)
    THEN IF attempts + 1 >= MAX_ATTEMPTS - 1
           THEN [attempts |-> 0, block |-> TRUE]
           ELSE [attempts |-> attempts + 1, block |-> FALSE]
  ELSE [attempts |-> attempts, block |-> FALSE]

(* the wrong-password branch blocking without resetting the counter *)
WrongPassword_NoReset(t, attempts, last_ts) ==
  IF attempts = 0
    THEN [attempts |-> 1, block |-> FALSE]
  ELSE IF Elapsed(t, last_ts) <= Secs(T_LOGIN)
    THEN IF attempts + 1 >= MAX_ATTEMPTS
           THEN [attempts |-> attempts + 1, block |-> TRUE]
           ELSE [attempts |-> attempts + 1, block |-> FALSE]
  ELSE [attempts |-> attempts, block |-> FALSE]

(* the wrong-password branch blocking one attempt late *)
WrongPassword_LateBlock(t, attempts, last_ts) ==
  IF attempts = 0
    THEN [attempts |-> 1, block |-> FALSE]
  ELSE IF Elapsed(t, last_ts) <= Secs(T_LOGIN)
    THEN IF attempts + 1 > MAX_ATTEMPTS
           THEN [attempts |-> 0, block |-> TRUE]
           ELSE [attempts |-> attempts + 1, block |-> FALSE]
  ELSE [attempts |-> attempts, block |-> FALSE]

(* the wrong-password branch counting without looking at the retry window *)
WrongPassword_NoWindow(t, attempts, last_ts) ==
  IF attempts = 0
    THEN [attempts |-> 1, block |-> FALSE]
  ELSE IF attempts + 1 >= MAX_ATTEMPTS
    THEN [attempts |-> 0, block |-> TRUE]
  ELSE [attempts |-> attempts + 1, block |-> FALSE]

(* the wrong-password branch of AuthenticationRequest.do_process: the       *)
(* counter to store and whether the user is set blocked                     *)
WrongPassword(t, attempts, last_ts) ==
  IF attempts = 0
    THEN [attempts |-> 1, block |-> FALSE]
  ELSE IF Elapsed(t, last_ts) <= Secs(T_LOGIN)
    THEN IF attempts + 1 >= MAX_ATTEMPTS
           THEN [attempts |-> 0, block |-> TRUE]
           ELSE [attempts |-> attempts + 1, block |-> FALSE]
  ELSE [attempts |-> attempts, block |-> FALSE]

(* AuthenticationRequest.do_process *)
Authentication_do_process(db, t, tok, email, password) ==
  LET found == UsersByEmail(db, email)
  IN IF found = {}
       THEN Out(db, "NotRegistered", FALSE, NONE, FALSE, FALSE)
     ELSE IF Cardinality(found) > 1
       THEN Out(db, "DuplicateEmail", FALSE, NONE, FALSE, FALSE)
     ELSE
       LET user0 == CHOOSE u \in found : TRUE
           chk == Auth_check_user(db, t, user0)
           user == Entity(chk.db.users, user0.user_id, NoUser)
           lo == Entity(chk.db.logins, user.user_id, NoLogin)
           attempts == IF LoginBool(lo) THEN lo.attempts ELSE 0
           last_ts == IF LoginBool(lo) THEN lo.created ELSE 0
           wp == WrongPassword(t, attempts, last_ts)
           dbB == IF wp.block
                    THEN [chk.db EXCEPT !.users =
                            Save(@, user.user_id, [user EXCEPT !.status = STATUS_BLOCKED])]
                    ELSE chk.db
       IN IF chk.exc # "none"
            THEN Out(chk.db, chk.exc, FALSE, NONE, FALSE, FALSE)
          ELSE IF user.password = password
            THEN Out(save_login(chk.db, t, tok, user.user_id, STATUS_ACCEPTED, 0),
                     "none", TRUE, random_string(tok), FALSE, TRUE)
          ELSE Out(save_login(dbB, t, tok, user.user_id, STATUS_REFUSED, wp.attempts),
                   "none", FALSE, NONE, TRUE, FALSE)

---------------------------------------------------------------------------
(* AuthorizationRequest *)

(* AuthorizationRequest.get_permissions_by_role: the object ids granted *)
RECURSIVE get_permissions_by_role(_, _, _)
get_permissions_by_role(rl, pm, role) ==
  LET oid_list == {p.object_id : p \in {q \in pm : q.role_id = role.role_id}}
      parent == RoleEntity(rl, role.parent_id)
  IN IF Truthy(parent.parent_id)
       THEN oid_list \cup get_permissions_by_role(rl, pm, parent)
       ELSE oid_list

(* AuthorizationRequest.get_role_by_uid *)
get_role_by_uid(db, rl, uid) ==
  RoleEntity(rl, Entity(db.users, uid, NoUser).role_id)

(* AuthorizationRequest.check_session: the error it raises ("none" when it  *)
(* returns), the tables after it, and whether a session id was generated    *)
check_session(db, t, tok, lo) ==
  IF lo.status # STATUS_ACCEPTED
    THEN [db |-> [db EXCEPT !.logins = Delete(@, lo.user_id)],
          exc |-> "SessionInvalid", gen |-> FALSE]
  ELSE IF Elapsed(t, lo.created) >= Secs(T_SESSION)
    THEN [db |-> [db EXCEPT !.logins = Delete(@, lo.user_id)],
          exc |-> "SessionExpired", gen |-> FALSE]
  ELSE IF Elapsed(t, lo.created) >= Secs(T_SESSION - T_REFRESH)
    THEN [db |-> [db EXCEPT !.logins =
                    Save(@, lo.user_id,
                         [lo EXCEPT !.session_id = random_string(tok),
                                    !.created = IntTime(t)])],
          exc |-> "none", gen |-> TRUE]
  ELSE [db |-> db, exc |-> "none", gen |-> FALSE]

(* do_process that looks the session up whatever the session id *)
Authorization_do_process_Lookup(db, rl, pm, t, tok, sid, oid) ==
  IF LoginsBySid(db, sid) = {}
    THEN Out(db, "SessionExpired", FALSE, NONE, FALSE, FALSE)
  ELSE
    LET lo == CHOOSE l \in LoginsBySid(db, sid) : TRUE
        chk == check_session(db, t, tok, lo)
        role == get_role_by_uid(chk.db, rl, lo.user_id)
    IN IF chk.exc # "none"
         THEN Out(chk.db, chk.exc, FALSE, NONE, FALSE, FALSE)
         ELSE Out(chk.db, "none", oid \in get_permissions_by_role(rl, pm, role),
                  sid, FALSE, chk.gen)

(* AuthorizationRequest.do_process *)
Authorization_do_process(db, rl, pm, t, tok, sid, oid) ==
  IF Truthy(sid)
    THEN IF LoginsBySid(db, sid) = {}
           THEN Out(db, "SessionExpired", FALSE, NONE, FALSE, FALSE)
         ELSE
           LET lo == CHOOSE l \in LoginsBySid(db, sid) : TRUE
               chk == check_session(db, t, tok, lo)
               role == get_role_by_uid(chk.db, rl, lo.user_id)
           IN IF chk.exc # "none"
                THEN Out(chk.db, chk.exc, FALSE, NONE, FALSE, FALSE)
                ELSE Out(chk.db, "none", oid \in get_permissions_by_role(rl, pm, role),
                         sid, FALSE, chk.gen)
    ELSE Out(db, "none",
             oid \in get_permissions_by_role(rl, pm, RoleEntity(rl, ROLE_ANONYMOUS)),
             sid, FALSE, FALSE)

---------------------------------------------------------------------------
(* do_process that deletes the session whatever its status *)
Logout_do_process_AnyStatus(db, sid) ==
  LET log_list == LoginsBySid(db, sid)
      lo == IF log_list = {} THEN NoLogin ELSE CHOOSE l \in log_list : TRUE
  IN IF log_list # {} /\ LoginBool(lo)
       THEN Out([db EXCEPT !.logins = Delete(@, lo.user_id)],
                "none", TRUE, sid, FALSE, FALSE)
       ELSE Out(db, "NotAuthenticated", FALSE, NONE, FALSE, FALSE)

(* LogoutRequest.do_process *)
Logout_do_process(db, sid) ==
  LET log_list == LoginsBySid(db, sid)
      lo == IF log_list = {} THEN NoLogin ELSE CHOOSE l \in log_list : TRUE
  IN IF log_list # {} /\ LoginBool(lo) /\ lo.status = STATUS_ACCEPTED
       THEN Out([db EXCEPT !.logins = Delete(@, lo.user_id)],
                "none", TRUE, sid, FALSE, FALSE)
       ELSE Out(db, "NotAuthenticated", FALSE, NONE, FALSE, FALSE)

---------------------------------------------------------------------------
(* DefaultRequest.do_process, the flow of a request whose type is not one   *)
(* of REQUEST_CLASSES; it is not decorated with dbconn                      *)
Default_do_process(db) ==
  Out(db, "UnrecognizedRequestType", FALSE, NONE, FALSE, FALSE)

---------------------------------------------------------------------------
---------------------------------------------------------------------------
(* Store failures. The mapper raises DbError when a statement fails; the    *)
(* operators below give, for each flow, the tables as written on the        *)
(* connection at the points where a statement of the flow can fail: before  *)
(* the first write, and after each write but the last. A token generated    *)
(* and never stored is not counted.                                         *)
DbFailure(db) == Out(db, "DbError", FALSE, NONE, FALSE, FALSE)

(* RegistrationRequest.do_process: failing before user.save(), or in        *)
(* new_activation after it                                                  *)
Registration_store_failure(db, t, email, password) ==
  LET found == UsersByEmail(db, email)
  IN IF found = {}
       THEN LET uid == NewUserId(db.users)
                user == [user_id |-> uid, email |-> email, password |-> password,
                         status |-> STATUS_INACTIVE, role_id |-> ROLE_STANDARD]
            IN {DbFailure(db), DbFailure([db EXCEPT !.users = @ \cup {user}])}
     ELSE LET user == CHOOSE u \in found : TRUE
          IN IF Cardinality(found) > 1 \/ Reg_check_user(db, t, user) # "none"
               THEN {DbFailure(db)}
               ELSE {DbFailure(db),
                     DbFailure([db EXCEPT !.users =
                        Save(@, user.user_id, [user EXCEPT !.password = password])])}

(* ActivationRequest.do_process: failing before the first statement that    *)
(* writes, or in the delete that follows it                                 *)
Activation_store_failure(db, t, aid) ==
  LET act_list == ActivationsByAid(db, aid)
  IN IF act_list = {} THEN {DbFailure(db)}
     ELSE
       LET act == CHOOSE a \in act_list : TRUE
           user == Entity(db.users, act.user_id, NoUser)
           noact == [db EXCEPT !.activations = Delete(@, act.user_id)]
       IN IF ~UserBool(user) THEN {DbFailure(db)}
          ELSE IF Elapsed(t, act.created) >= Secs(T_ACTIVATION)
            THEN {DbFailure(db), DbFailure(noact)}
          ELSE {DbFailure(db),
                DbFailure([db EXCEPT !.users =
                   Save(@, user.user_id, [user EXCEPT !.status = STATUS_ACTIVE])])}

(* AuthenticationRequest.do_process: failing before the first write, after  *)
(* check_user has set the user active, or after the user was blocked and    *)
(* before save_login                                                        *)
Authentication_store_failure(db, t, email, password) ==
  LET found == UsersByEmail(db, email)
  IN IF Cardinality(found) # 1 THEN {DbFailure(db)}
     ELSE
       LET user0 == CHOOSE u \in found : TRUE
           chk == Auth_check_user(db, t, user0)
           user == Entity(chk.db.users, user0.user_id, NoUser)
           lo == Entity(chk.db.logins, user.user_id, NoLogin)
           attempts == IF LoginBool(lo) THEN lo.attempts ELSE 0
           last_ts == IF LoginBool(lo) THEN lo.created ELSE 0
           wp == WrongPassword(t, attempts, last_ts)
           dbB == [chk.db EXCEPT !.users =
                     Save(@, user.user_id, [user EXCEPT !.status = STATUS_BLOCKED])]
       IN IF chk.exc # "none" THEN {DbFailure(db)}
          ELSE {DbFailure(db), DbFailure(chk.db)}
                 \cup (IF user.password # password /\ wp.block
                         THEN {DbFailure(dbB)} ELSE {})

(* LogoutRequest.do_process: its one write is its last statement *)
Logout_store_failure(db, sid) == {DbFailure(db)}

(* dbconn that keeps what was written before a DbError *)
dbconn_KeepPartial(in_trx, db, out) ==
  IF out.exc \in {"none", "DbError"} THEN out.db ELSE db

(* dbconn that commits whatever the call did *)
dbconn_CommitAlways(in_trx, db, out) == out.db

(* dbapi.dbconn: the tables after the decorated call. The call's changes    *)
(* are committed when it returns; a DbError is caught, the transaction is   *)
(* rolled back (or, outside a transaction, the connection closed without a  *)
(* commit) and the call returns False; a domain error passes through the    *)
(* decorator, which closes the connection without a commit.                 *)
dbconn(in_trx, db, out) ==
  IF out.exc = "none" THEN out.db
  ELSE IF out.exc = "DbError" THEN db
  ELSE db

(* PySAAServer.handle_request: what the caller gets. A domain error is      *)
(* caught, and the handler then assigns into a response that was never      *)
(* bound. After a DbError the decorated call returned False, and that is    *)
(* returned.                                                                *)
handle_request(out) ==
  IF out.exc = "none" THEN "response"
  ELSE IF out.exc = "DbError" THEN "False"
  ELSE "UnboundLocalError"

---------------------------------------------------------------------------
(* the state *)

(* the tables a request finds *)
Db == [users |-> users, activations |-> activations, logins |-> logins]

(* the role tree and the grants of the example of the specification:        *)
(* anonymous root <- standard <- extended                                   *)
ExampleRoles ==
  {[role_id |-> ROLE_ANONYMOUS, parent_id |-> NONE],
   [role_id |-> ROLE_STANDARD, parent_id |-> ROLE_ANONYMOUS],
   [role_id |-> ROLE_EXTENDED, parent_id |-> ROLE_STANDARD]}
ExamplePermissions ==
  {[permission_id |-> 1, role_id |-> ROLE_ANONYMOUS, object_id |-> "public"],
   [permission_id |-> 2, role_id |-> ROLE_STANDARD, object_id |-> "dashboard"],
   [permission_id |-> 3, role_id |-> ROLE_EXTENDED, object_id |-> "admin"]}

(* the request handled in the last step (none when time has passed since)   *)
(* and what came of it: the email it named, the domain error raised         *)
(* ("none" when do_process returned), the response's result, the session id *)
(* and whether a password is in it, and what handle_request's caller gets;  *)
(* and what the request found: the account's status, its stored counter and *)
(* whether the stored time was more than the retry window ago               *)
Request(type, email, arg, out, pre) ==
  [type |-> type, email |-> email, arg |-> arg, exc |-> out.exc, result |-> out.result,
   rsid |-> out.sid, rpwd |-> out.pwd, got |-> handle_request(out),
   was |-> pre.was, c |-> pre.c, late |-> pre.late, wrote |-> out.db # Db]

NoPre == [was |-> NONE, c |-> 0, late |-> FALSE]

(* what a request naming an email finds *)
Pre(email) ==
  IF UsersByEmail(Db, email) = {} THEN NoPre
  ELSE LET user == CHOOSE u \in UsersByEmail(Db, email) : TRUE
           lo == Entity(logins, user.user_id, NoLogin)
       IN [was |-> user.status,
           c |-> IF lo = NoLogin THEN 0 ELSE lo.attempts,
           late |-> lo # NoLogin /\ Elapsed(now, lo.created) > Secs(T_LOGIN)]

NoRequest ==
  [type |-> "none", email |-> "", arg |-> NONE, exc |-> "none", result |-> FALSE, rsid |-> NONE,
   rpwd |-> FALSE, got |-> "response", was |-> NONE, c |-> 0, late |-> FALSE,
   wrote |-> FALSE]

(* history, for the claims about runs of failed logins: per email the       *)
(* length of the current run of consecutive wrong-password logins that      *)
(* began on an active account with counter 0 and each came within the retry *)
(* window of the stored time of the one before                              *)
NoStreak == [e \in Emails |-> 0]

(* the role whose permissions were resolved last and the object ids found *)
NoGrant == [role_id |-> NONE, oid_list |-> {}]

(* the login requests in progress, when requests are handled concurrently:  *)
(* per handler what its do_process has read so far                          *)
Procs == 1 .. MaxProcs
Idle == [pc |-> "idle", email |-> "", pwd |-> "", user |-> NoUser,
         attempts |-> 0, last_ts |-> 0]
NoPending == [p \in Procs |-> Idle]

Init ==
  /\ users = {}
  /\ activations = {}
  /\ logins = {}
  /\ roles = ExampleRoles
  /\ permissions = ExamplePermissions
  /\ now = 0
  /\ nextTok = 1
  /\ ticks = 0
  /\ last = NoRequest
  /\ streak = NoStreak
  /\ granted = NoGrant
  /\ pending = NoPending

(* the decorated do_process, then handle_request's return *)
Handle(in_trx, out, req, h) ==
  /\ out.gen => nextTok <= MaxTokens
  /\ users' = dbconn(in_trx, Db, out).users
  /\ activations' = dbconn(in_trx, Db, out).activations
  /\ logins' = dbconn(in_trx, Db, out).logins
  /\ nextTok' = IF out.gen THEN nextTok + 1 ELSE nextTok
  /\ last' = req
  /\ streak' = h
  /\ UNCHANGED <<roles, permissions, now, ticks, granted, pending>>

Register(email, pwd) ==
  LET out == Registration_do_process(Db, now, nextTok, email, pwd)
  IN Handle(TRUE, out, Request("register", email, NONE, out, Pre(email)), streak)

Activate(aid) ==
  LET out == Activation_do_process(Db, now, aid)
  IN Handle(TRUE, out, Request("activate", "", aid, out, NoPre), streak)

(* the run of wrong-password logins on an email after one more login *)
NextStreak(email, pwd) ==
  LET found == UsersByEmail(Db, email)
      user == CHOOSE u \in found : TRUE
      lo == Entity(logins, user.user_id, NoLogin)
      fresh == user.status = STATUS_ACTIVE /\ (lo = NoLogin \/ lo.attempts = 0)
      run == streak[email]
  IN IF found = {} \/ user.password = pwd THEN 0
     ELSE IF run > 0 /\ run < MAX_ATTEMPTS /\ lo # NoLogin
               /\ Elapsed(now, lo.created) <= Secs(T_LOGIN)
       THEN run + 1
     ELSE IF fresh THEN 1
     ELSE 0

Login(email, pwd) ==
  LET out == Authentication_do_process(Db, now, nextTok, email, pwd)
  IN Handle(TRUE, out, Request("login", email, NONE, out, Pre(email)),
            [streak EXCEPT ![email] = NextStreak(email, pwd)])

Authorize(sid, oid) ==
  LET out == Authorization_do_process(Db, roles, permissions, now, nextTok, sid, oid)
  IN Handle(FALSE, out, Request("authorize", "", sid, out, NoPre), streak)

Logout(sid) ==
  LET out == Logout_do_process(Db, sid)
  IN Handle(TRUE, out, Request("logout", "", sid, out, NoPre), streak)

(* the requests again, with a statement of the flow failing in the store *)
RegisterFails(email, pwd) ==
  \E out \in Registration_store_failure(Db, now, email, pwd) :
    Handle(TRUE, out, Request("register", email, NONE, out, Pre(email)), streak)

ActivateFails(aid) ==
  \E out \in Activation_store_failure(Db, now, aid) :
    Handle(TRUE, out, Request("activate", "", aid, out, NoPre), streak)

LoginFails(email, pwd) ==
  \E out \in Authentication_store_failure(Db, now, email, pwd) :
    Handle(TRUE, out, Request("login", email, NONE, out, Pre(email)),
           [streak EXCEPT ![email] = 0])

LogoutFails(sid) ==
  \E out \in Logout_store_failure(Db, sid) :
    Handle(TRUE, out, Request("logout", "", sid, out, NoPre), streak)

(* a request with an unrecognized type *)
Unrecognized ==
  LET out == Default_do_process(Db)
  IN /\ last' = Request("default", "", NONE, out, NoPre)
     /\ UNCHANGED <<users, activations, logins, roles, permissions, now, nextTok,
                    ticks, streak, granted, pending>>

(* the stored times plus the durations the code compares their age with, *)
(* in seconds *)
Deadlines ==
  {l.created + T : l \in logins,
                   T \in {T_LOGIN, T_BLOCKED, T_SESSION - T_REFRESH, T_SESSION}}
    \cup {a.created + T_ACTIVATION : a \in activations}

(* the ticks at which a stored time reaches such an age, and one tick later *)
Instants == {d * TicksPerSec + k : d \in Deadlines, k \in {0, 1}}

(* time passes between requests, up to the instant d *)
Tick(d) ==
  /\ ticks < MaxTicks
  /\ d > now
  /\ now' = d
  /\ ticks' = ticks + 1
  /\ last' = NoRequest
  /\ UNCHANGED <<users, activations, logins, roles, permissions, nextTok, streak, granted,
               pending>>

(* the tokens a request may carry: those generated so far and one that was  *)
(* never generated                                                          *)
Issued == 1 .. nextTok

Next ==
  \/ \E e \in Emails, p \in Pwds : Register(e, p)
  \/ \E a \in Issued : Activate(a)
  \/ \E e \in Emails, p \in Pwds : Login(e, p)
  \/ \E s \in {EMPTY_SID} \cup Issued, o \in Oids : Authorize(s, o)
  \/ \E s \in {EMPTY_SID} \cup Issued : Logout(s)
  \/ Unrecognized
  \/ \E d \in Instants : Tick(d)

Spec == Init /\ [][Next]_vars

(* the same requests over a store in which a statement may fail *)
NextFaults ==
  \/ Next
  \/ \E e \in Emails, p \in Pwds : RegisterFails(e, p)
  \/ \E a \in Issued : ActivateFails(a)
  \/ \E e \in Emails, p \in Pwds : LoginFails(e, p)
  \/ \E s \in {EMPTY_SID} \cup Issued : LogoutFails(s)

SpecFaults == Init /\ [][NextFaults]_vars

---------------------------------------------------------------------------
(* get_permissions_by_role over role trees: every tree on MaxRoles roles in *)
(* which a role's parent was created before it, each role granting at most  *)
(* one object                                                               *)
RoleIds == 1 .. MaxRoles

RoleTrees ==
  {{[role_id |-> r, parent_id |-> par[r]] : r \in RoleIds} :
     par \in {f \in [RoleIds -> {NONE} \cup RoleIds] :
                \A r \in RoleIds : f[r] = NONE \/ f[r] < r}}

Grants ==
  {{[permission_id |-> r, role_id |-> r, object_id |-> g[r]] :
      r \in {x \in RoleIds : g[x] # ""}} :
     g \in [RoleIds -> Oids \cup {""}]}

InitRoles ==
  /\ users = {}
  /\ activations = {}
  /\ logins = {}
  /\ roles \in RoleTrees
  /\ permissions \in Grants
  /\ now = 0
  /\ nextTok = 1
  /\ ticks = 0
  /\ last = NoRequest
  /\ streak = NoStreak
  /\ granted = NoGrant
  /\ pending = NoPending

Resolve(r) ==
  /\ granted' = [role_id |-> r,
                 oid_list |-> get_permissions_by_role(roles, permissions,
                                                      RoleEntity(roles, r))]
  /\ UNCHANGED <<users, activations, logins, roles, permissions, now, nextTok,
                 ticks, last, streak, pending>>

NextRoles == \E r \in RoleIds : Resolve(r)

SpecRoles == InitRoles /\ [][NextRoles]_vars

---------------------------------------------------------------------------
(* Login requests handled concurrently. Each handler has its own connection *)
(* and transaction: what it reads is the committed store, what it writes is *)
(* committed when its do_process returns. A handler's do_process is taken   *)
(* in two steps, the statements up to the read of the login row, and the    *)
(* rest; no time passes.                                                    *)

(* the counter the wrong-password branch counts from: the one do_process    *)
(* read into attempts, not the one stored when save_login runs              *)
CounterUsed_Stored(loc, db) ==
  Entity(db.logins, loc.user.user_id, NoLogin).attempts

CounterUsed(loc, db) == loc.attempts

(* an account that has registered and activated *)
InitRace ==
  /\ users = {[user_id |-> 1, email |-> "a@x", password |-> "pw1",
               status |-> STATUS_ACTIVE, role_id |-> ROLE_STANDARD]}
  /\ activations = {}
  /\ logins = {}
  /\ roles = ExampleRoles
  /\ permissions = ExamplePermissions
  /\ now = 0
  /\ nextTok = 2
  /\ ticks = 0
  /\ last = NoRequest
  /\ streak = NoStreak
  /\ granted = NoGrant
  /\ pending = NoPending

(* do_process up to the password check: get_user_by_email, check_user and   *)
(* the read of the login row                                                *)
LoginRead(p, email, pwd) ==
  LET found == UsersByEmail(Db, email)
      user == CHOOSE u \in found : TRUE
      chk == Auth_check_user(Db, now, user)
      lo == Entity(logins, user.user_id, NoLogin)
      out == Out(Db, chk.exc, FALSE, NONE, FALSE, FALSE)
  IN /\ pending[p].pc = "idle"
     /\ Cardinality(found) = 1
     /\ streak[email] < MaxLogins
     /\ IF chk.exc # "none"
          THEN /\ last' = Request("login", email, NONE, out, Pre(email))
               /\ UNCHANGED pending
          ELSE /\ pending' = [pending EXCEPT ![p] =
                   [pc |-> "read", email |-> email, pwd |-> pwd, user |-> user,
                    attempts |-> IF LoginBool(lo) THEN lo.attempts ELSE 0,
                    last_ts |-> IF LoginBool(lo) THEN lo.created ELSE 0]]
               /\ UNCHANGED last
     /\ UNCHANGED <<users, activations, logins, roles, permissions, now, nextTok,
                    ticks, streak, granted>>

(* the rest of do_process: the password check, the wrong-password branch,   *)
(* save_login, and the commit                                               *)
LoginWrite(p) ==
  LET loc == pending[p]
      wp == WrongPassword(now, CounterUsed(loc, Db), loc.last_ts)
      dbB == IF wp.block
               THEN [Db EXCEPT !.users =
                       Save(@, loc.user.user_id,
                            [loc.user EXCEPT !.status = STATUS_BLOCKED])]
               ELSE Db
      out == IF loc.user.password = loc.pwd
               THEN Out(save_login(Db, now, nextTok, loc.user.user_id, STATUS_ACCEPTED, 0),
                        "none", TRUE, random_string(nextTok), FALSE, TRUE)
               ELSE Out(save_login(dbB, now, nextTok, loc.user.user_id, STATUS_REFUSED,
                                   wp.attempts),
                        "none", FALSE, NONE, TRUE, FALSE)
  IN /\ loc.pc = "read"
     /\ out.gen => nextTok <= MaxTokens
     /\ users' = dbconn(TRUE, Db, out).users
     /\ activations' = dbconn(TRUE, Db, out).activations
     /\ logins' = dbconn(TRUE, Db, out).logins
     /\ nextTok' = IF out.gen THEN nextTok + 1 ELSE nextTok
     /\ last' = Request("login", loc.email, NONE, out, Pre(loc.email))
     /\ streak' = [streak EXCEPT ![loc.email] = IF out.result THEN 0 ELSE @ + 1]
     /\ pending' = [pending EXCEPT ![p] = Idle]
     /\ UNCHANGED <<roles, permissions, now, ticks, granted>>

NextRace ==
  \/ \E p \in Procs, e \in Emails, pwd \in Pwds : LoginRead(p, e, pwd)
  \/ \E p \in Procs : LoginWrite(p)

SpecRace == InitRace /\ [][NextRace]_vars

---------------------------------------------------------------------------
(* Claims *)

(* the account of an email and its session row *)
Account(e) == CHOOSE u \in UsersByEmail(Db, e) : TRUE
SessionRows(e) == RowsById(logins, Account(e).user_id)

BlockedWithin(e) ==
  /\ UsersByEmail(Db, e) # {}
  /\ Account(e).status = STATUS_BLOCKED
  /\ \E l \in SessionRows(e) : Elapsed(now, l.created) <= Secs(T_BLOCKED)
BlockedPast(e) ==
  /\ UsersByEmail(Db, e) # {}
  /\ Account(e).status = STATUS_BLOCKED
  /\ \E l \in SessionRows(e) : Elapsed(now, l.created) > Secs(T_BLOCKED)

(* C2: while an account is blocked and the age of its session row's time is *)
(* within the block duration, every login for it, with the right or a wrong *)
(* password, fails with TemporarilyBlocked and changes nothing in the       *)
(* store: the account stays blocked, the session row is not rewritten.      *)
C2_BlockedLoginChangesNothing ==
  [][\A e \in Emails, p \in Pwds :
       (BlockedWithin(e) /\ Login(e, p)) =>
          /\ last'.exc = "TemporarilyBlocked"
          /\ users' = users /\ logins' = logins /\ activations' = activations
          /\ nextTok' = nextTok]_vars

C2_Witness ==
  /\ last.type = "login" /\ last.exc = "TemporarilyBlocked"
  /\ BlockedWithin(last.email)
  /\ now > IntTime(now) * TicksPerSec

(* C3: for a blocked account whose session row's time is older than the     *)
(* block duration, the next login sets the account active and evaluates the *)
(* credentials: with the right password it succeeds and returns a new       *)
(* session id, with a wrong one it returns failure and the account is       *)
(* active afterwards.                                                       *)
C3_UnblockThenEvaluate ==
  [][\A e \in Emails, p \in Pwds :
       (BlockedPast(e) /\ Login(e, p)) =>
          /\ last'.exc = "none"
          /\ \A u \in users' : u.email = e => u.status = STATUS_ACTIVE
          /\ IF p = Account(e).password
               THEN /\ last'.result
                    /\ last'.rsid = nextTok
                    /\ \A l \in logins' :
                         l.user_id = Account(e).user_id =>
                           l.status = STATUS_ACCEPTED /\ l.session_id = last'.rsid
               ELSE /\ ~last'.result
                    /\ \A l \in logins' :
                         l.user_id = Account(e).user_id => l.status = STATUS_REFUSED]_vars

C3_Witness ==
  /\ last.type = "login" /\ last.was = STATUS_BLOCKED /\ last.exc = "none"
  /\ ~last.result
  /\ Account(last.email).status = STATUS_ACTIVE

(* C4: on a wrong-password login the counter stored afterwards is a         *)
(* function of the prior counter c and the time elapsed since the stored    *)
(* time of the last attempt: 1 when c = 0; c + 1 when c > 0 and the elapsed *)
(* time is at most the retry window, or 0 with the account blocked when     *)
(* c + 1 reaches the maximum; exactly c when c > 0 and the elapsed time     *)
(* exceeds the retry window.                                                *)
PriorCounter(e) ==
  IF SessionRows(e) = {} THEN 0 ELSE (CHOOSE l \in SessionRows(e) : TRUE).attempts
InRetryWindow(e) ==
  \E l \in SessionRows(e) : Elapsed(now, l.created) <= Secs(T_LOGIN)
ReachesMaximum(e) ==
  PriorCounter(e) > 0 /\ InRetryWindow(e) /\ PriorCounter(e) + 1 = MAX_ATTEMPTS
CounterAfter(e) ==
  IF PriorCounter(e) = 0 THEN 1
  ELSE IF InRetryWindow(e)
    THEN (IF ReachesMaximum(e) THEN 0 ELSE PriorCounter(e) + 1)
  ELSE PriorCounter(e)

(* the password is checked: the account is active, or blocked for longer    *)
(* than the block duration                                                  *)
PasswordChecked(e) ==
  /\ UsersByEmail(Db, e) # {}
  /\ Account(e).status = STATUS_ACTIVE \/ BlockedPast(e)

AccountsOf(e) == {u \in users : u.email = e}
TokensOf(e) == {a \in activations : \E u \in AccountsOf(e) : a.user_id = u.user_id}

(* C5: a register request for an email that has no account creates an       *)
(* inactive account and exactly one activation token for it; an activate    *)
(* request carrying a stored token whose age is below the activation TTL    *)
(* sets the account active and removes the token; an activate request       *)
(* carrying a token that is not stored fails with InvalidActivationLink and *)
(* changes nothing, and a token that was generated and is no longer stored  *)
(* is never stored again, so a second activate with it fails.               *)
C5_RegisterThenActivate ==
  [][/\ \A e \in Emails, p \in Pwds :
          (AccountsOf(e) = {} /\ Register(e, p)) =>
            /\ last'.exc = "none"
            /\ \E u \in users' :
                 /\ AccountsOf(e)' = {u}
                 /\ u.status = STATUS_INACTIVE
                 /\ u.password = p
                 /\ TokensOf(e)' = {[user_id |-> u.user_id, activation_id |-> nextTok,
                                     created |-> IntTime(now)]}
     /\ \A a \in Issued :
          /\ (/\ \E x \in activations : /\ x.activation_id = a
                                        /\ Elapsed(now, x.created) < Secs(T_ACTIVATION)
              /\ Activate(a)) =>
               LET x == CHOOSE y \in activations : y.activation_id = a
               IN /\ last'.exc = "none" /\ last'.result
                  /\ \E u \in users' : u.user_id = x.user_id /\ u.status = STATUS_ACTIVE
                  /\ \A u \in users' : u.user_id = x.user_id => u.status = STATUS_ACTIVE
                  /\ ActivationsByAid(Db, a)' = {}
          /\ (ActivationsByAid(Db, a) = {} /\ Activate(a)) =>
               /\ last'.exc = "InvalidActivationLink"
               /\ UNCHANGED <<users, activations, logins>>
          /\ (a < nextTok /\ ActivationsByAid(Db, a) = {}) =>
               ActivationsByAid(Db, a)' = {}]_vars

(* the only token generated so far was the registration's; the account is   *)
(* active, so that token was used; an activate carrying it again failed     *)
C5_Witness ==
  /\ nextTok = 2
  /\ \E u \in users : u.status = STATUS_ACTIVE
  /\ activations = {}
  /\ last.type = "activate" /\ last.arg = 1
  /\ last.exc = "InvalidActivationLink"

(* C6: an authorize request presenting the session id of a session whose    *)
(* age is at least the session TTL fails with SessionExpired and the        *)
(* session is removed from the store.                                       *)
C6_ExpiredSessionRemoved ==
  [][\A s \in Issued, o \in Oids :
       (/\ \E l \in LoginsBySid(Db, s) : /\ l.status = STATUS_ACCEPTED
                                         /\ Elapsed(now, l.created) >= Secs(T_SESSION)
        /\ Authorize(s, o)) =>
         /\ last'.exc = "SessionExpired"
         /\ LoginsBySid(Db, s)' = {}]_vars

(* C7: an authorize request presenting an accepted session whose age is     *)
(* below the session TTL and whose remaining lifetime is below the refresh  *)
(* threshold rotates the session to a new session id with a refreshed       *)
(* timestamp, and the response carries the new session id.                  *)
C7_RotationReturnsNewSid ==
  [][\A s \in Issued, o \in Oids :
       (/\ \E l \in LoginsBySid(Db, s) :
             /\ l.status = STATUS_ACCEPTED
             /\ Elapsed(now, l.created) < Secs(T_SESSION)
             /\ Secs(T_SESSION) - Elapsed(now, l.created) < Secs(T_REFRESH)
        /\ Authorize(s, o)) =>
         LET l == CHOOSE x \in LoginsBySid(Db, s) : TRUE
         IN /\ last'.exc = "none"
            /\ \E n \in logins' : /\ n.user_id = l.user_id
                                  /\ n.status = STATUS_ACCEPTED
                                  /\ n.session_id # s
                                  /\ n.created = IntTime(now)
                                  /\ last'.rsid = n.session_id]_vars

(* the grants of a role and of every ancestor of it up to the root *)
RECURSIVE EffectiveGrants(_, _, _)
EffectiveGrants(rl, pm, id) ==
  LET role == RoleEntity(rl, id)
      own == {p.object_id : p \in {q \in pm : q.role_id = id}}
  IN IF Truthy(role.parent_id)
       THEN own \cup EffectiveGrants(rl, pm, role.parent_id)
       ELSE own

(* C8: the permission set resolved for a role of an acyclic role tree is    *)
(* the union of the role's own grants and the grants of every ancestor up   *)
(* to and including the parentless root.                                    *)
C8_UnionOverAncestors ==
  granted # NoGrant =>
    granted.oid_list = EffectiveGrants(roles, permissions, granted.role_id)

(* C9: a logout request with the session id of an accepted session deletes  *)
(* that session and succeeds; a logout request with a session id that       *)
(* matches no accepted session fails with NotAuthenticated and deletes      *)
(* nothing; a session id that was generated and is no longer stored is      *)
(* never stored again, so a second logout with it fails.                    *)
C9_Logout ==
  [][\A s \in {EMPTY_SID} \cup Issued :
       /\ (last'.type = "logout" /\ Logout(s)) =>
            IF \E l \in LoginsBySid(Db, s) : l.status = STATUS_ACCEPTED
              THEN /\ last'.exc = "none" /\ last'.result
                   /\ logins' = logins \ LoginsBySid(Db, s)
                   /\ logins' # logins
                   /\ UNCHANGED <<users, activations>>
              ELSE /\ last'.exc = "NotAuthenticated"
                   /\ UNCHANGED <<users, activations, logins>>
       /\ (s # EMPTY_SID /\ s < nextTok /\ LoginsBySid(Db, s) = {}) =>
            LoginsBySid(Db, s)' = {}]_vars

(* no time has passed, so the second token generated was the session id of  *)
(* an accepted login; its session is gone, so it was logged out; a logout   *)
(* carrying it again failed                                                 *)
C9_Witness ==
  /\ ticks = 0 /\ nextTok = 3
  /\ \E u \in users : u.status = STATUS_ACTIVE
  /\ logins = {}
  /\ last.type = "logout" /\ last.arg = 2
  /\ last.exc = "NotAuthenticated"

(* C10: a register request for the email of an active or blocked account    *)
(* fails with DuplicateRegistration, one for the email of an inactive       *)
(* account whose token's age is below the activation TTL fails with         *)
(* PendingActivation; either way the stored accounts and tokens are         *)
(* unchanged and no token is generated.                                     *)
C10_RejectedRegisterAltersNothing ==
  [][\A e \in Emails, p \in Pwds :
       (AccountsOf(e) # {} /\ Register(e, p)) =>
         /\ Account(e).status \in {STATUS_ACTIVE, STATUS_BLOCKED} =>
              /\ last'.exc = "DuplicateRegistration"
              /\ UNCHANGED <<users, activations, logins, nextTok>>
         /\ (/\ Account(e).status = STATUS_INACTIVE
             /\ \E a \in TokensOf(e) : Elapsed(now, a.created) < Secs(T_ACTIVATION)) =>
              /\ last'.exc = "PendingActivation"
              /\ UNCHANGED <<users, activations, logins, nextTok>>]_vars

(* a register request for the email of an inactive account whose token is   *)
(* younger than the activation TTL was rejected as pending                  *)
C10_Witness ==
  /\ last.type = "register" /\ last.exc = "PendingActivation"
  /\ last.was = STATUS_INACTIVE
  /\ \E a \in TokensOf(last.email) : Elapsed(now, a.created) < Secs(T_ACTIVATION)

(* C11: a register request for the email of an inactive account whose token *)
(* is older than the activation TTL, or that has no token, succeeds: the    *)
(* stored password becomes the supplied one, the account stays inactive,    *)
(* and afterwards the account has exactly one token, a new one; the old     *)
(* token string finds no activation any more.                               *)
C11_ReRegisterAfterExpiry ==
  [][\A e \in Emails, p \in Pwds :
       (/\ AccountsOf(e) # {}
        /\ Account(e).status = STATUS_INACTIVE
        /\ \A a \in TokensOf(e) : Elapsed(now, a.created) > Secs(T_ACTIVATION)
        /\ Register(e, p)) =>
         /\ last'.exc = "none" /\ last'.result
         /\ AccountsOf(e)' = {[Account(e) EXCEPT !.password = p]}
         /\ TokensOf(e)' = {[user_id |-> Account(e).user_id, activation_id |-> nextTok,
                             created |-> IntTime(now)]}
         /\ \A a \in TokensOf(e) : ActivationsByAid(Db, a.activation_id)' = {}]_vars

(* a register request found an inactive account and succeeded, after the    *)
(* first token had aged past the TTL; the account holds the second token    *)
C11_Witness ==
  /\ last.type = "register" /\ last.exc = "none" /\ last.was = STATUS_INACTIVE
  /\ nextTok = 3
  /\ \E u \in AccountsOf(last.email) :
       /\ u.status = STATUS_INACTIVE
       /\ activations = {[user_id |-> u.user_id, activation_id |-> 2,
                          created |-> IntTime(now)]}
       /\ now > Secs(T_ACTIVATION)

(* C12: an activate request carrying a stored token whose age is at least   *)
(* the activation TTL fails with ActivationExpired, and after the request   *)
(* neither the token nor its account is in the store.                       *)
C12_ExpiredActivationCleansUp ==
  [][\A a \in Issued :
       (/\ \E x \in activations : /\ x.activation_id = a
                                  /\ Elapsed(now, x.created) >= Secs(T_ACTIVATION)
        /\ Activate(a)) =>
         LET x == CHOOSE y \in activations : y.activation_id = a
         IN /\ last'.exc = "ActivationExpired"
            /\ ActivationsByAid(Db, a)' = {}
            /\ RowsById(users', x.user_id) = {}]_vars

(* C13: a login with the right password on an account that is active, or    *)
(* blocked for longer than the block duration, leaves exactly one session   *)
(* row for the account: a newly generated, non-empty session id, status     *)
(* accepted, counter 0, the current time; the response carries that session *)
(* id, and no session id generated before finds a session of the account.   *)
C13_AcceptedLoginOverwritesSession ==
  [][\A e \in Emails, p \in Pwds :
       (/\ AccountsOf(e) # {}
        /\ p = Account(e).password
        /\ (Account(e).status = STATUS_ACTIVE \/ BlockedPast(e))
        /\ Login(e, p)) =>
         /\ last'.exc = "none" /\ last'.result
         /\ last'.rsid = nextTok /\ last'.rsid # EMPTY_SID
         /\ nextTok' = nextTok + 1
         /\ SessionRows(e)' = {[user_id |-> Account(e).user_id, session_id |-> last'.rsid,
                                status |-> STATUS_ACCEPTED, attempts |-> 0,
                                created |-> IntTime(now)]}
         /\ \A s \in 1 .. nextTok - 1 :
              \A l \in LoginsBySid(Db, s)' : l.user_id # Account(e).user_id]_vars

(* no time has passed, so the second and the third token were both session  *)
(* ids of accepted logins; the account's session is the third               *)
C13_Witness ==
  /\ ticks = 0 /\ nextTok = 4
  /\ last.type = "login" /\ last.result /\ last.rsid = 3 /\ last.was = STATUS_ACTIVE
  /\ \E l \in SessionRows(last.email) : l.session_id = 3 /\ l.status = STATUS_ACCEPTED
  /\ LoginsBySid(Db, 2) = {}

(* C14: for every request the dispatcher returns a response envelope, and   *)
(* when the flow raised a domain error the envelope has result false and    *)
(* the error; a request with an unrecognized type gets such an envelope     *)
(* with the UnrecognizedRequestType error.                                  *)
C14_DispatcherAlwaysResponds ==
  last.type # "none" =>
    /\ last.got = "response"
    /\ last.exc # "none" => ~last.result
    /\ last.type = "default" => last.exc = "UnrecognizedRequestType"

(* C15: no response returned for a request holds the password.              *)
C15_NoPasswordInResponse ==
  (last.type # "none" /\ last.got = "response") => ~last.rpwd

C18_StoreInvariants ==
  /\ \A u, v \in users : u.email = v.email => u = v
  /\ \A u \in users :
       /\ Cardinality(RowsById(logins, u.user_id)) <= 1
       /\ Cardinality(RowsById(activations, u.user_id)) <= 1
  /\ \A a \in activations : Cardinality(RowsById(users, a.user_id)) = 1

(* the email was registered twice, the second time after the first token    *)
(* had expired, then activated, and has logged in                           *)
C18_Witness ==
  /\ nextTok = 4 /\ now > Secs(T_ACTIVATION)
  /\ Cardinality(users) = 1 /\ Cardinality(logins) = 1 /\ activations = {}
  /\ \E l \in logins : l.session_id = 3 /\ l.status = STATUS_ACCEPTED

(* C19: in every step an account's status changes only from inactive to     *)
(* active by an activate request that succeeds, from active to blocked by a *)
(* wrong-password login whose count reaches the maximum, or from blocked to *)
(* active by a login after the block duration; an account appears only as   *)
(* inactive, by a register request, and disappears only by an activate      *)
(* request that found its token expired. No account becomes inactive again. *)
C19_StatusTransitions ==
  [][/\ \A u \in users :
          IF RowsById(users, u.user_id)' = {}
            THEN last'.type = "activate" /\ last'.exc = "ActivationExpired"
            ELSE \A v \in RowsById(users, u.user_id)' :
                   \/ v.status = u.status
                   \/ /\ u.status = STATUS_INACTIVE /\ v.status = STATUS_ACTIVE
                      /\ last'.type = "activate" /\ last'.exc = "none" /\ last'.result
                   \/ /\ u.status = STATUS_ACTIVE /\ v.status = STATUS_BLOCKED
                      /\ last'.type = "login" /\ last'.email = u.email
                      /\ last'.exc = "none" /\ ~last'.result
                      /\ ReachesMaximum(u.email)
                   \/ /\ u.status = STATUS_BLOCKED /\ v.status = STATUS_ACTIVE
                      /\ last'.type = "login" /\ last'.email = u.email
                      /\ last'.exc = "none"
                      /\ BlockedPast(u.email)
     /\ \A v \in users' :
          RowsById(users, v.user_id) = {} =>
            /\ v.status = STATUS_INACTIVE
            /\ last'.type = "register" /\ last'.email = v.email
            /\ last'.exc = "none"]_vars

(* a blocked account has logged in with the right password after the block  *)
(* and is active                                                            *)
C19_Witness ==
  /\ last.type = "login" /\ last.was = STATUS_BLOCKED /\ last.result
  /\ Account(last.email).status = STATUS_ACTIVE

(* C20: a login request for an unknown email fails with NotRegistered, one  *)
(* for an inactive account fails with NotActivated; neither creates or      *)
(* changes a session row or generates a session id; and an inactive account *)
(* never has a session row.                                                 *)
C20_NoSessionBeforeActivation ==
  /\ [][\A e \in Emails, p \in Pwds :
          /\ (AccountsOf(e) = {} /\ Login(e, p)) =>
               /\ last'.exc = "NotRegistered"
               /\ UNCHANGED <<logins, nextTok>>
          /\ (AccountsOf(e) # {} /\ Account(e).status = STATUS_INACTIVE /\ Login(e, p)) =>
               /\ last'.exc = "NotActivated"
               /\ UNCHANGED <<logins, nextTok>>]_vars
  /\ [](\A u \in users :
          u.status = STATUS_INACTIVE => RowsById(logins, u.user_id) = {})

(* a login with the stored password for an inactive account was refused as  *)
(* not activated; the account has no session row                            *)
C20_Witness ==
  /\ last.type = "login" /\ last.exc = "NotActivated" /\ last.was = STATUS_INACTIVE
  /\ \E u \in AccountsOf(last.email) :
       u.status = STATUS_INACTIVE /\ RowsById(logins, u.user_id) = {}

(* C21: when login requests for one account are handled concurrently, a     *)
(* wrong-password login stores the counter computed from the counter it     *)
(* read, whatever was stored in between; so two failed attempts that both   *)
(* read the session row before either wrote it raise the stored counter by  *)
(* one, and a state is reached in which MAX_ATTEMPTS failed attempts within *)
(* the retry window have left the account active.                           *)
C21_StaleCounter ==
  [][\A p \in Procs :
       (/\ pending[p].pc = "read"
        /\ pending[p].pwd # pending[p].user.password
        /\ LoginWrite(p)) =>
         LET loc == pending[p]
             wp == WrongPassword(now, loc.attempts, loc.last_ts)
         IN /\ RowsById(logins', loc.user.user_id) =
                 {[user_id |-> loc.user.user_id, session_id |-> EMPTY_SID,
                   status |-> STATUS_REFUSED, attempts |-> wp.attempts,
                   created |-> IntTime(now)]}
            /\ (\E q \in Procs : /\ q # p /\ pending[q].pc = "read"
                                 /\ pending[q].attempts = loc.attempts
                                 /\ pending[q].pwd # pending[q].user.password
                                 /\ loc.attempts > 0 /\ ~wp.block) =>
                 \A l \in RowsById(logins', loc.user.user_id) :
                   l.attempts = loc.attempts + 1]_vars

(* MAX_ATTEMPTS wrong-password logins in a row have completed, no time has  *)
(* passed, no login is in progress, and the account is active               *)
C21_Witness ==
  /\ now = 0
  /\ \A p \in Procs : pending[p].pc = "idle"
  /\ \E u \in users :
       /\ streak[u.email] = MAX_ATTEMPTS
       /\ u.status = STATUS_ACTIVE
       /\ \E l \in RowsById(logins, u.user_id) :
            l.status = STATUS_REFUSED /\ l.attempts = MAX_ATTEMPTS - 1

(* C22: for an inactive account with a stored token, a register request     *)
(* fails with PendingActivation exactly when the token's age is below the   *)
(* activation TTL, and an activate request with the token fails with        *)
(* ActivationExpired exactly when the age is at least the TTL; at an age    *)
(* equal to the TTL the register request succeeds.                          *)
C22_ExpiryAgreement ==
  [][/\ \A e \in Emails, p \in Pwds :
          (/\ AccountsOf(e) # {}
           /\ Account(e).status = STATUS_INACTIVE
           /\ TokensOf(e) # {}
           /\ Register(e, p)) =>
            LET age == Elapsed(now, (CHOOSE a \in TokensOf(e) : TRUE).created)
            IN /\ (last'.exc = "PendingActivation") <=> (age < Secs(T_ACTIVATION))
               /\ (age >= Secs(T_ACTIVATION)) => (last'.exc = "none" /\ last'.result)
     /\ \A a \in Issued :
          (ActivationsByAid(Db, a) # {} /\ Activate(a)) =>
            LET age == Elapsed(now, (CHOOSE x \in ActivationsByAid(Db, a) : TRUE).created)
            IN (last'.exc = "ActivationExpired") <=> (age >= Secs(T_ACTIVATION))]_vars

(* C23: an authorize request presenting an accepted session whose remaining *)
(* lifetime, the session TTL minus its age, is at least the refresh         *)
(* threshold leaves the session row as it is: no new session id, no new     *)
(* timestamp.                                                               *)
C23_NoRefreshBeforeThreshold ==
  [][\A s \in Issued, o \in Oids :
       (/\ \E l \in LoginsBySid(Db, s) :
             /\ l.status = STATUS_ACCEPTED
             /\ Secs(T_SESSION) - Elapsed(now, l.created) >= Secs(T_REFRESH)
        /\ Authorize(s, o)) =>
         /\ last'.exc = "none"
         /\ UNCHANGED <<logins, nextTok>>]_vars

(* C24: an authorize request with an empty session id raises no error,      *)
(* changes nothing in the store, and returns result true exactly when the   *)
(* requested object is among the grants of the anonymous role and of its    *)
(* ancestors.                                                               *)
C24_AnonymousAuthorize ==
  [][\A o \in Oids :
       (last'.type = "authorize" /\ Authorize(EMPTY_SID, o)) =>
         /\ last'.exc = "none"
         /\ UNCHANGED <<users, activations, logins, nextTok>>
         /\ last'.result <=> (o \in EffectiveGrants(roles, permissions, ROLE_ANONYMOUS))]_vars

(* an authorize request without a session id was granted while the store    *)
(* holds a refused session, whose session id is empty                       *)
C24_Witness ==
  /\ last.type = "authorize" /\ last.arg = EMPTY_SID
  /\ last.exc = "none" /\ last.result
  /\ \E l \in logins : l.session_id = EMPTY_SID /\ l.status = STATUS_REFUSED

(* C25: in every reachable state an accepted session row has a non-empty    *)
(* session id and counter 0, a refused one has an empty session id and a    *)
(* counter from 0 to MAX_ATTEMPTS - 1; and no authorize request ends in     *)
(* SessionInvalid.                                                          *)
C25_SessionRowsWellFormed ==
  /\ \A l \in logins :
       /\ l.status \in {STATUS_ACCEPTED, STATUS_REFUSED}
       /\ l.status = STATUS_ACCEPTED => (l.session_id # EMPTY_SID /\ l.attempts = 0)
       /\ l.status = STATUS_REFUSED =>
            (l.session_id = EMPTY_SID /\ l.attempts \in 0 .. MAX_ATTEMPTS - 1)
  /\ last.exc # "SessionInvalid"

(* a refused session with the largest counter is stored, and an authorize   *)
(* request carrying a session id that finds no session was just rejected    *)
C25_Witness ==
  /\ \E l \in logins : l.status = STATUS_REFUSED /\ l.attempts = MAX_ATTEMPTS - 1
  /\ last.type = "authorize" /\ last.arg # EMPTY_SID /\ last.exc = "SessionExpired"

C27_WrongPasswordEndsSession ==
  [][/\ \A e \in Emails, p \in Pwds :
          (/\ AccountsOf(e) # {}
           /\ Account(e).status = STATUS_ACTIVE
           /\ p # Account(e).password
           /\ \E l \in SessionRows(e) : l.status = STATUS_ACCEPTED
           /\ Login(e, p)) =>
            /\ last'.exc = "none" /\ ~last'.result
            /\ \A l \in SessionRows(e) : LoginsBySid(Db, l.session_id)' = {}
            /\ \E n \in logins' :
                 /\ RowsById(logins', Account(e).user_id) = {n}
                 /\ n.status = STATUS_REFUSED /\ n.session_id = EMPTY_SID
     /\ \A s \in Issued :
          (LoginsBySid(Db, s) = {} /\ last'.arg = s) =>
            /\ \A o \in Oids : (last'.type = "authorize" /\ Authorize(s, o)) =>
                                  last'.exc = "SessionExpired"
            /\ (last'.type = "logout" /\ Logout(s)) => last'.exc = "NotAuthenticated"]_vars

(* no time has passed since the account logged in and got the second token  *)
(* as session id; a wrong-password login followed, and an authorize request *)
(* carrying that session id was rejected                                    *)
C27_Witness ==
  /\ now = 0 /\ nextTok = 3
  /\ \E u \in users :
       /\ u.status = STATUS_ACTIVE
       /\ \E l \in RowsById(logins, u.user_id) :
            l.status = STATUS_REFUSED /\ l.attempts = 1
  /\ last.type = "authorize" /\ last.arg = 2 /\ last.exc = "SessionExpired"


(* C28: in every reachable state every activation row belongs to an        *)
(* existing account whose status is Inactive, so Active and Blocked         *)
(* accounts have no activation; an activate request never removes an        *)
(* Active or Blocked account; and the branch of activation that finds the   *)
(* activation but not its user (the only one that raises                    *)
(* InvalidActivationLink after writing) is never taken.                     *)
C28_TokensOfInactiveOnly ==
  /\ [](/\ \A a \in activations :
             \E u \in users : u.user_id = a.user_id /\ u.status = STATUS_INACTIVE
        /\ (last.type = "activate" /\ last.exc = "InvalidActivationLink") => ~last.wrote)
  /\ [][last'.type = "activate" =>
          \A u \in users : u.status # STATUS_INACTIVE => u \in users']_vars

C28_Witness ==
  /\ \E u \in users : u.status = STATUS_BLOCKED
  /\ activations = {}
  /\ last.type = "activate" /\ last.arg = 1 /\ last.exc = "InvalidActivationLink"


(* C29: a wrong-password login for an Active account whose counter is 0,   *)
(* or whose counter is 1 and whose previous attempt is more than the retry  *)
(* window old, returns failure, stores the counter 1 and leaves the account *)
(* Active; so a run of wrong-password logins that starts at counter 0 and   *)
(* in which each comes more than the retry window after the one before     *)
(* keeps the counter at 1 and never blocks the account.                     *)
SpacedWrongPassword(e, p) ==
  /\ AccountsOf(e) # {}
  /\ Account(e).status = STATUS_ACTIVE
  /\ p # Account(e).password
  /\ PriorCounter(e) = 0 \/ (PriorCounter(e) = 1 /\ ~InRetryWindow(e))

C29_SpacedFailuresNeverBlock ==
  [][\A e \in Emails, p \in Pwds :
       (SpacedWrongPassword(e, p) /\ Login(e, p)) =>
         /\ last'.exc = "none" /\ ~last'.result
         /\ \E u \in users' :
              /\ u.email = e /\ u.status = STATUS_ACTIVE
              /\ \E l \in logins' :
                   /\ RowsById(logins', u.user_id) = {l}
                   /\ l.attempts = 1 /\ l.status = STATUS_REFUSED]_vars

C29_Witness ==
  /\ now = 2 * Secs(T_LOGIN) + 1
  /\ last.type = "login" /\ last.was = STATUS_ACTIVE /\ last.c = 1 /\ last.late
  /\ ~last.result
  /\ \E u \in users : /\ u.status = STATUS_ACTIVE
       /\ \E l \in RowsById(logins, u.user_id) :
            l.attempts = 1 /\ l.created = IntTime(now)

====
